---- MODULE Spec2Model ----
(***************************************************************************)
(* HD derivation paths (ParseDerivationPath, DerivationPath.String,        *)
(* MarshalJSON, UnmarshalJSON, DeriveKey) and the key adapter              *)
(* (extendedkey.go: ExtendedKey.Child).                                    *)
(*                                                                         *)
(* Representation.  A Go string is a sequence of one-character strings.    *)
(* TLC's integers are 32-bit signed, so the numbers of the program keep    *)
(* their width as little-endian sequences of 16-bit limbs: a uint32 is     *)
(* <<lo, hi>>, a uint64 is four limbs, and a big.Int is a sign and a       *)
(* normalised limb sequence of any length, as math/big's nat is.           *)
(***************************************************************************)
EXTENDS Integers, Sequences, FiniteSets

(***************************************************************************)
(* Bounds of the model.                                                    *)
(***************************************************************************)
\* the number of components between the first and the last of an input path
MaxMid == 1
\* the length of the paths handed to DeriveKey and to MarshalJSON
MaxPathLen == 3

(***************************************************************************)
(* Machine numbers.                                                        *)
(***************************************************************************)
\* the radix of one limb
WordBase == 65536

\* uint32 from its high and low 16-bit halves
U32(hi, lo) == <<lo, hi>>

\* uint32 addition, wrapping at 2^32 as Go's does
add32(a, b) ==
    LET lo == a[1] + b[1]
        hi == a[2] + b[2] + (lo \div WordBase)
    IN  <<lo % WordBase, hi % WordBase>>

\* uint32 subtraction, wrapping at 2^32 as Go's does
sub32(a, b) ==
    LET lo == a[1] - b[1]
        borrow == IF lo < 0 THEN 1 ELSE 0
        hi == a[2] - b[2] - borrow
    IN  <<lo % WordBase, hi % WordBase>>

\* a >= b on uint32
geq32(a, b) == a[2] > b[2] \/ (a[2] = b[2] /\ a[1] >= b[1])

\* math.MaxUint32
MaxUint32 == U32(65535, 65535)

\* the hardened bit 0x80000000 (hdkeychain.HardenedKeyStart)
HardenedKeyStart == U32(32768, 0)

\* nat.norm: drop the leading (most significant) zero limbs
RECURSIVE norm(_)
norm(z) ==
    IF z = <<>> THEN <<>>
    ELSE IF z[Len(z)] = 0 THEN norm(SubSeq(z, 1, Len(z) - 1))
    ELSE z

\* nat.mulAddWW: z * b + c for a small multiplier b and a small addend c
RECURSIVE mulAddWW(_, _, _)
mulAddWW(z, b, c) ==
    IF z = <<>> THEN (IF c = 0 THEN <<>> ELSE <<c>>)
    ELSE LET t == z[1] * b + c
         IN  <<t % WordBase>> \o mulAddWW(Tail(z), b, t \div WordBase)

\* nat.cmp: -1, 0 or 1 for two normalised limb sequences
RECURSIVE natCmp(_, _)
natCmp(x, y) ==
    IF Len(x) # Len(y) THEN (IF Len(x) < Len(y) THEN -1 ELSE 1)
    ELSE IF x = <<>> THEN 0
    ELSE IF x[Len(x)] # y[Len(y)] THEN (IF x[Len(x)] < y[Len(y)] THEN -1 ELSE 1)
    ELSE natCmp(SubSeq(x, 1, Len(x) - 1), SubSeq(y, 1, Len(y) - 1))

\* big.Int values: a sign and a magnitude; zero has no sign
BigInt(neg, abs) == [neg |-> neg /\ abs # <<>>, abs |-> abs]

\* big.NewInt(int64(u)) for a uint32 u
NewInt(u) == BigInt(FALSE, norm(u))

\* big.Int.Sign
Sign(x) == IF x.abs = <<>> THEN 0 ELSE IF x.neg THEN -1 ELSE 1

\* big.Int.Cmp
Cmp(x, y) ==
    IF x.neg # y.neg THEN (IF x.neg THEN -1 ELSE 1)
    ELSE IF x.neg THEN 0 - natCmp(x.abs, y.abs)
    ELSE natCmp(x.abs, y.abs)

\* big.Int.Uint64: the low 64 bits of the magnitude
Uint64(x) == [i \in 1..4 |-> IF i <= Len(x.abs) THEN x.abs[i] ELSE 0]

\* the conversion uint32(w) of a uint64: its low 32 bits
uint32(w) == <<w[1], w[2]>>

(***************************************************************************)
(* Strings.                                                                *)
(***************************************************************************)
\* unicode.IsSpace on the characters of the model
IsSpace(ch) == ch \in {" ", "\t", "\n", "\r"}

\* strings.TrimSpace
RECURSIVE TrimLeft(_)
TrimLeft(s) == IF s # <<>> /\ IsSpace(s[1]) THEN TrimLeft(Tail(s)) ELSE s

RECURSIVE TrimRight(_)
TrimRight(s) ==
    IF s # <<>> /\ IsSpace(s[Len(s)]) THEN TrimRight(SubSeq(s, 1, Len(s) - 1)) ELSE s

TrimSpace(s) == TrimRight(TrimLeft(s))

\* Split dropping the empty components, as strings.FieldsFunc would
RECURSIVE SplitSkippingEmpty(_)
SplitSkippingEmpty(s) ==
    IF s = <<>> THEN <<>>
    ELSE IF s[1] = "/" THEN SplitSkippingEmpty(Tail(s))
    ELSE IF \A i \in 1..Len(s) : s[i] # "/" THEN <<s>>
    ELSE LET i == CHOOSE j \in 1..Len(s) : s[j] = "/" /\ \A k \in 1..(j - 1) : s[k] # "/"
         IN  <<SubSeq(s, 1, i - 1)>> \o SplitSkippingEmpty(SubSeq(s, i + 1, Len(s)))

\* strings.Split(s, "/"): always at least one component
RECURSIVE Split(_)
Split(s) ==
    IF \A i \in 1..Len(s) : s[i] # "/" THEN <<s>>
    ELSE LET i == CHOOSE j \in 1..Len(s) : s[j] = "/" /\ \A k \in 1..(j - 1) : s[k] # "/"
         IN  <<SubSeq(s, 1, i - 1)>> \o Split(SubSeq(s, i + 1, Len(s)))

\* strings.HasSuffix(s, "'") and strings.TrimSuffix(s, "'")
HasSuffix(s) == s # <<>> /\ s[Len(s)] = "'"

TrimSuffix(s) == IF HasSuffix(s) THEN SubSeq(s, 1, Len(s) - 1) ELSE s

(***************************************************************************)
(* Number syntax: big.Int.SetString(s, 0) and decimal formatting.       *)
(***************************************************************************)
Digits == <<"0", "1", "2", "3", "4", "5", "6", "7", "8", "9">>

Lower == <<"a", "b", "c", "d", "e", "f", "g", "h", "i", "j", "k", "l", "m",
           "n", "o", "p", "q", "r", "s", "t", "u", "v", "w", "x", "y", "z">>

Upper == <<"A", "B", "C", "D", "E", "F", "G", "H", "I", "J", "K", "L", "M",
           "N", "O", "P", "Q", "R", "S", "T", "U", "V", "W", "X", "Y", "Z">>

\* the position of ch in seq, 0 when it is not there
IndexIn(ch, seq) ==
    IF \E i \in 1..Len(seq) : seq[i] = ch
    THEN CHOOSE i \in 1..Len(seq) : seq[i] = ch
    ELSE 0

\* nat.scan's digit value of a character; 63 (MaxBase + 1) for a non-digit
digitVal(ch) ==
    IF IndexIn(ch, Digits) > 0 THEN IndexIn(ch, Digits) - 1
    ELSE IF IndexIn(ch, Lower) > 0 THEN IndexIn(ch, Lower) + 9
    ELSE IF IndexIn(ch, Upper) > 0 THEN IndexIn(ch, Upper) + 9
    ELSE 63

\* nat.scan's digit loop in base b: stops at the first character that is no
\* digit of the base, which stays unread
RECURSIVE scanDigits(_, _, _, _)
scanDigits(s, b, z, count) ==
    IF s = <<>> \/ digitVal(s[1]) >= b
    THEN [abs |-> norm(z), count |-> count, rest |-> s]
    ELSE scanDigits(Tail(s), b, mulAddWW(z, b, digitVal(s[1])), count + 1)

\* natScan reading a leading 0 as a decimal digit: no octal prefix
natScanNoOctal(s) ==
    LET more == s # <<>> /\ s[1] = "0" /\ Len(s) >= 2
        prefix == IF ~more THEN ""
                  ELSE IF s[2] \in {"x", "X"} THEN "x"
                  ELSE IF s[2] \in {"b", "B"} THEN "b"
                  ELSE ""
        b == IF prefix = "x" THEN 16 ELSE IF prefix = "b" THEN 2 ELSE 10
        r == IF prefix \in {"x", "b"} THEN scanDigits(SubSeq(s, 3, Len(s)), b, <<>>, 0)
             ELSE scanDigits(s, b, <<>>, 0)
    IN  [ok |-> r.count > 0, abs |-> r.abs, rest |-> r.rest]

\* nat.scan(r, 0, false): base 10 unless a prefix 0x, 0X (16), 0b, 0B (2) or
\* 0 (8) selects another.  The prefixes 0o, 0O and the separator _ of later
\* Go releases are not modelled: no input of the model holds o, O or _.
natScan(s) ==
    LET zero == s # <<>> /\ s[1] = "0"
        more == zero /\ Len(s) >= 2
        prefix == IF ~more THEN ""
                  ELSE IF s[2] \in {"x", "X"} THEN "x"
                  ELSE IF s[2] \in {"b", "B"} THEN "b"
                  ELSE "0"
        b == IF prefix = "x" THEN 16 ELSE IF prefix = "b" THEN 2
             ELSE IF prefix = "0" THEN 8 ELSE 10
        r == IF prefix \in {"x", "b"} THEN scanDigits(SubSeq(s, 3, Len(s)), b, <<>>, 0)
             ELSE IF prefix = "0" THEN scanDigits(Tail(s), b, <<>>, 0)
             ELSE IF zero THEN [abs |-> <<>>, count |-> 1, rest |-> <<>>]
             ELSE scanDigits(s, b, <<>>, 0)
    IN  IF r.count > 0 THEN [ok |-> TRUE, abs |-> r.abs, rest |-> r.rest]
        ELSE IF prefix = "0" THEN [ok |-> TRUE, abs |-> <<>>, rest |-> r.rest]
        ELSE [ok |-> FALSE, abs |-> <<>>, rest |-> r.rest]

\* new(big.Int).SetString(s, 0): an optional sign, then nat.scan; the whole
\* string must be consumed
SetString(s) ==
    LET signed == s # <<>> /\ s[1] \in {"+", "-"}
        r == natScan(IF signed THEN Tail(s) ELSE s)
    IN  IF s # <<>> /\ r.ok /\ r.rest = <<>>
        THEN [ok |-> TRUE, val |-> BigInt(signed /\ s[1] = "-", r.abs)]
        ELSE [ok |-> FALSE, val |-> BigInt(FALSE, <<>>)]

\* nat.divW from the most significant limb down: quotient limbs and remainder
RECURSIVE divW(_, _, _)
divW(z, d, r) ==
    IF z = <<>> THEN [q |-> <<>>, r |-> r]
    ELSE LET t == r * WordBase + z[Len(z)]
             low == divW(SubSeq(z, 1, Len(z) - 1), d, t % d)
         IN  [q |-> Append(low.q, t \div d), r |-> low.r]

\* the decimal digits of a non-zero magnitude
RECURSIVE itoa(_)
itoa(z) ==
    IF z = <<>> THEN <<>>
    ELSE LET dm == divW(z, 10, 0) IN itoa(norm(dm.q)) \o <<Digits[dm.r + 1]>>

\* fmt's %d of a uint32
FormatUint32(u) == IF norm(u) = <<>> THEN <<"0">> ELSE itoa(norm(u))

\* fmt's %v of a big.Int: decimal, with a minus sign when negative
FormatBig(x) ==
    IF x.abs = <<>> THEN <<"0">>
    ELSE (IF x.neg THEN <<"-">> ELSE <<>>) \o itoa(x.abs)

(***************************************************************************)
(* Errors: the format string of the message and its formatted arguments.   *)
(***************************************************************************)
nil == [msg |-> "", args |-> <<>>]

Error(msg, args) == [msg |-> msg, args |-> args]

ErrEmptyPath == Error("empty derivation path", <<>>)

ErrAmbiguousPath ==
    Error("ambiguous path: use 'm/' prefix for absolute paths, or no leading '/' for relative ones", <<>>)

ErrMissingBasePath == Error("base path must be provided for relative path", <<>>)

ErrInvalidComponent(component) == Error("invalid component: %s", <<component>>)

ErrOutOfRange(bigval, max) ==
    Error("component %v out of allowed range [0, %d]", <<FormatBig(bigval), FormatUint32(max)>>)

ErrOutOfHardenedRange(bigval, max) ==
    Error("component %v out of allowed hardened range [0, %d]", <<FormatBig(bigval), FormatUint32(max)>>)

(***************************************************************************)
(* ParseDerivationPath and DerivationPath.String.                          *)
(***************************************************************************)
\* a (DerivationPath, error) result; a nil path is the empty sequence
Result(path, err) == [path |-> path, err |-> err]

\* componentMax without the hardened offset taken off the ceiling
componentMaxUnhardened(value) == MaxUint32

\* componentMax with the 31-bit ceiling for every component
componentMaxAlways31(value) == U32(32767, 65535)

\* max := math.MaxUint32 - value: the ceiling of a component, 0xFFFFFFFF
\* without and 0x7FFFFFFF with the hardened offset
componentMax(value) == sub32(MaxUint32, value)

\* the loop over the components: each is trimmed, its hardened suffix taken
\* off, parsed as a big integer, range-checked and appended
RECURSIVE parseComponents(_, _)
parseComponents(components, result) ==
    IF components = <<>> THEN Result(result, nil)
    ELSE LET trimmed == TrimSpace(components[1])
             hardened == HasSuffix(trimmed)
             value == IF hardened THEN HardenedKeyStart ELSE U32(0, 0)
             component == IF hardened THEN TrimSpace(TrimSuffix(trimmed)) ELSE trimmed
             parsed == SetString(component)
             bigval == parsed.val
             max == componentMax(value)
         IN  IF ~parsed.ok THEN Result(<<>>, ErrInvalidComponent(component))
             ELSE IF Sign(bigval) < 0 \/ Cmp(bigval, NewInt(max)) > 0
             THEN IF value = U32(0, 0)
                  THEN Result(<<>>, ErrOutOfRange(bigval, max))
                  ELSE Result(<<>>, ErrOutOfHardenedRange(bigval, max))
             ELSE parseComponents(Tail(components),
                                  Append(result, add32(value, uint32(Uint64(bigval)))))

\* ParseDerivationPath starting a relative path from nothing: the base is
\* required but not copied
ParseIgnoringBase(path, base) ==
    LET components == Split(path)
    IN  IF Len(components) = 0 THEN Result(<<>>, ErrEmptyPath)
        ELSE IF TrimSpace(components[1]) = <<>> THEN Result(<<>>, ErrAmbiguousPath)
        ELSE IF TrimSpace(components[1]) = <<"m">>
        THEN IF Len(Tail(components)) = 0 THEN Result(<<>>, ErrEmptyPath)
             ELSE parseComponents(Tail(components), <<>>)
        ELSE IF Len(base) > 0 THEN parseComponents(components, <<>>)
        ELSE Result(<<>>, ErrMissingBasePath)

\* ParseDerivationPath(path, base...): base is the variadic argument, a
\* sequence of paths of which only the first is read
ParseDerivationPath(path, base) ==
    LET components == Split(path)
    IN  IF Len(components) = 0 THEN Result(<<>>, ErrEmptyPath)
        ELSE IF TrimSpace(components[1]) = <<>> THEN Result(<<>>, ErrAmbiguousPath)
        ELSE IF TrimSpace(components[1]) = <<"m">>
        THEN IF Len(Tail(components)) = 0 THEN Result(<<>>, ErrEmptyPath)
             ELSE parseComponents(Tail(components), <<>>)
        ELSE IF Len(base) > 0 THEN parseComponents(components, base[1])
        ELSE Result(<<>>, ErrMissingBasePath)

\* formatComponent printing a hardened index without taking the offset off
formatComponentKeepsBit(component) ==
    IF geq32(component, HardenedKeyStart)
    THEN <<"/">> \o FormatUint32(component) \o <<"'">>
    ELSE <<"/">> \o FormatUint32(component)

\* the body of String's loop: "/", the decimal value of the index's low 31
\* bits, and "'" when the hardened bit was set
formatComponent(component) ==
    IF geq32(component, HardenedKeyStart)
    THEN <<"/">> \o FormatUint32(sub32(component, HardenedKeyStart)) \o <<"'">>
    ELSE <<"/">> \o FormatUint32(component)

\* DerivationPath.String: "m", then every index in order
RECURSIVE String(_)
String(path) ==
    IF path = <<>> THEN <<"m">>
    ELSE String(SubSeq(path, 1, Len(path) - 1)) \o formatComponent(path[Len(path)])

(***************************************************************************)
(* The inputs of the model: the texts a caller writes between the          *)
(* separators of a path string.  A numeral is listed with the integer it   *)
(* denotes (a sign and a magnitude in limbs), which the properties below   *)
(* compare the parser's result with.                                       *)
(***************************************************************************)
N(text, neg, abs) == [text |-> text, neg |-> neg, abs |-> abs]

C(text, num, hard, neg, abs) ==
    [text |-> text, num |-> num, hard |-> hard, neg |-> neg, abs |-> abs]

\* numerals in the notations SetString(s, 0) reads, and what each denotes
Numerals ==
    {
      N(<<"0">>, FALSE, <<>>),
      N(<<"0", "0">>, FALSE, <<>>),
      N(<<"-", "0">>, FALSE, <<>>),
      N(<<"4", "4">>, FALSE, <<44>>),
      N(<<"+", "4", "4">>, FALSE, <<44>>),
      N(<<"0", "x", "2", "C">>, FALSE, <<44>>),
      N(<<"0", "X", "2", "c">>, FALSE, <<44>>),
      N(<<"0", "5", "4">>, FALSE, <<44>>),
      N(<<"0", "b", "1", "0", "1", "1", "0", "0">>, FALSE, <<44>>),
      N(<<"6", "0">>, FALSE, <<60>>),
      N(<<"0", "x", "3", "c">>, FALSE, <<60>>),
      N(<<"2", "1", "4", "7", "4", "8", "3", "6", "4", "7">>, FALSE, <<65535, 32767>>),
      N(<<"0", "x", "7", "f", "f", "f", "f", "f", "f", "f">>, FALSE, <<65535, 32767>>),
      N(<<"2", "1", "4", "7", "4", "8", "3", "6", "4", "8">>, FALSE, <<0, 32768>>),
      N(<<"0", "x", "8", "0", "0", "0", "0", "0", "0", "0">>, FALSE, <<0, 32768>>),
      N(<<"2", "1", "4", "7", "4", "8", "3", "6", "9", "2">>, FALSE, <<44, 32768>>),
      N(<<"4", "2", "9", "4", "9", "6", "7", "2", "9", "5">>, FALSE, <<65535, 65535>>),
      N(<<"0", "x", "F", "F", "F", "F", "F", "F", "F", "F">>, FALSE, <<65535, 65535>>),
      N(<<"0", "3", "7", "7", "7", "7", "7", "7", "7", "7", "7", "7">>, FALSE, <<65535, 65535>>),
      N(<<"4", "2", "9", "4", "9", "6", "7", "2", "9", "6">>, FALSE, <<0, 0, 1>>),
      N(<<"0", "x", "1", "0", "0", "0", "0", "0", "0", "0", "0">>, FALSE, <<0, 0, 1>>),
      N(<<"1", "8", "4", "4", "6", "7", "4", "4", "0", "7", "3", "7", "0", "9", "5", "5", "1", "6", "6", "0">>, FALSE, <<44, 0, 0, 0, 1>>),
      N(<<"-", "1">>, TRUE, <<1>>)
    }

\* a numeral as a non-hardened and as a hardened component
Plain == {C(n.text, TRUE, FALSE, n.neg, n.abs) : n \in Numerals}

Hardened == {C(n.text \o <<"'">>, TRUE, TRUE, n.neg, n.abs) : n \in Numerals}

\* numerals with the white space the parser ignores
Spaced ==
    {
      C(<<" ", "4", "4", " ">>, TRUE, FALSE, FALSE, <<44>>),
      C(<<"4", "4", " ", "'">>, TRUE, TRUE, FALSE, <<44>>),
      C(<<" ", "0", "x", "2", "C", " ", "'", " ">>, TRUE, TRUE, FALSE, <<44>>),
      C(<<"\t", "6", "0">>, TRUE, FALSE, FALSE, <<60>>)
    }

\* texts that are no numeral: the root marker, empty and malformed components
Malformed ==
    {C(t, FALSE, FALSE, FALSE, <<>>) : t \in {
      <<>>,
      <<" ">>,
      <<"m">>,
      <<" ", "m", " ">>,
      <<"M">>,
      <<"x">>,
      <<"0", "x">>,
      <<"0", "8">>,
      <<"4", " ", "4">>,
      <<"'">>,
      <<"4", "4", "'", "'">>,
      <<"0", "x", "2", "G">>,
      <<"-", "-", "1">>
    }}

PartTable == Plain \cup Hardened \cup Spaced \cup Malformed

\* the entry of a text
Part(text) == CHOOSE e \in PartTable : e.text = text

\* the first component of a path string of several components
Heads == {Part(t) : t \in {<<"m">>, <<" ", "m", " ">>, <<>>, <<"4", "4", "'">>, <<"M">>}}

\* the components between the first and the last
Mids == {Part(t) : t \in {<<"4", "4", "'">>, <<"0", "x", "3", "c", "'">>, <<"0">>, <<>>}}

MidSeqs == UNION {[1..n -> Mids] : n \in 0..MaxMid}

\* the component sequences of the path strings handed to the parser
PartSeqs ==
    {<<l>> : l \in PartTable}
        \cup {<<h>> \o ms \o <<l>> : h \in Heads, ms \in MidSeqs, l \in PartTable}

\* strings.Join(texts, "/")
RECURSIVE Join(_)
Join(parts) ==
    IF parts = <<>> THEN <<>>
    ELSE IF Len(parts) = 1 THEN parts[1].text
    ELSE parts[1].text \o <<"/">> \o Join(Tail(parts))

\* the variadic base argument: absent, an empty path, a path, two paths
Bases ==
    { <<>>,
      << <<>> >>,
      << <<U32(32768, 44), MaxUint32>> >>,
      << <<U32(0, 7)>>, <<U32(32768, 0)>> >> }

(***************************************************************************)
(* encoding/json for a Go string, and the JSON methods of DerivationPath.  *)
(***************************************************************************)
\* the escape json.Marshal writes for a character of the model (the HTML
\* characters and the other control characters are in no string here)
jsonEscape(ch) ==
    IF ch = "\"" THEN <<"\\", "\"">>
    ELSE IF ch = "\\" THEN <<"\\", "\\">>
    ELSE IF ch = "\n" THEN <<"\\", "n">>
    ELSE IF ch = "\r" THEN <<"\\", "r">>
    ELSE IF ch = "\t" THEN <<"\\", "t">>
    ELSE <<ch>>

RECURSIVE jsonEscapeAll(_)
jsonEscapeAll(s) == IF s = <<>> THEN <<>> ELSE jsonEscape(s[1]) \o jsonEscapeAll(Tail(s))

\* json.Marshal(s) for a string s: the quoted, escaped text
jsonMarshal(s) == <<"\"">> \o jsonEscapeAll(s) \o <<"\"">>

ErrSyntax == Error("invalid character or unexpected end of JSON input", <<>>)

ErrUnmarshalType == Error("json: cannot unmarshal number into Go value of type string", <<>>)

\* the body of a JSON string literal, after the opening quote: the decoded
\* text up to the closing quote, which must end the input
RECURSIVE jsonUnquote(_, _)
jsonUnquote(b, acc) ==
    IF b = <<>> THEN [s |-> <<>>, err |-> ErrSyntax]
    ELSE IF b[1] = "\"" THEN
        (IF Len(b) = 1 THEN [s |-> acc, err |-> nil] ELSE [s |-> <<>>, err |-> ErrSyntax])
    ELSE IF b[1] = "\\" THEN
        (IF Len(b) >= 2 /\ b[2] \in {"\"", "\\", "/"}
            THEN jsonUnquote(SubSeq(b, 3, Len(b)), Append(acc, b[2]))
         ELSE IF Len(b) >= 2 /\ b[2] \in {"n", "r", "t"}
            THEN jsonUnquote(SubSeq(b, 3, Len(b)),
                             Append(acc, IF b[2] = "n" THEN "\n" ELSE IF b[2] = "r" THEN "\r" ELSE "\t"))
         ELSE [s |-> <<>>, err |-> ErrSyntax])
    ELSE IF b[1] \in {"\t", "\n", "\r"} THEN [s |-> <<>>, err |-> ErrSyntax]
    ELSE jsonUnquote(Tail(b), Append(acc, b[1]))

\* json.Unmarshal(b, &dp) for a string dp that starts empty: a string
\* literal sets dp, null leaves it, a number is a type error, anything else
\* of the model's inputs is a syntax error
jsonUnmarshal(b) ==
    LET t == TrimSpace(b)
    IN  IF t = <<"n", "u", "l", "l">> THEN [s |-> <<>>, err |-> nil]
        ELSE IF t # <<>> /\ t[1] = "\"" THEN jsonUnquote(Tail(t), <<>>)
        ELSE IF t # <<>> /\ \A k \in 1..Len(t) : IndexIn(t[k], Digits) > 0
            THEN [s |-> <<>>, err |-> ErrUnmarshalType]
        ELSE [s |-> <<>>, err |-> ErrSyntax]

\* MarshalJSON returning the canonical text itself, not its JSON encoding
MarshalJSONUnquoted(path) == String(path)

\* DerivationPath.MarshalJSON: json.Marshal(path.String()), which cannot fail
MarshalJSON(path) == jsonMarshal(String(path))

\* UnmarshalJSON resolving a relative string against a default root path
UnmarshalJSONDefaultBase(recv, b) ==
    LET dec == jsonUnmarshal(b)
    IN  IF dec.err # nil THEN Result(recv, dec.err)
        ELSE ParseDerivationPath(dec.s, << <<U32(32768, 44), U32(32768, 60)>> >>)

\* DerivationPath.UnmarshalJSON on the receiver value recv: a JSON error
\* returns before the receiver is written; otherwise the receiver takes the
\* path ParseDerivationPath returns without a base (nil on its error)
UnmarshalJSON(recv, b) ==
    LET dec == jsonUnmarshal(b)
    IN  IF dec.err # nil THEN Result(recv, dec.err)
        ELSE ParseDerivationPath(dec.s, <<>>)

(***************************************************************************)
(* ExtendedKey.Child and DeriveKey.                                        *)
(***************************************************************************)
\* an extended key: whether it holds the private key, and the indices that
\* derived it from the master (its key material is a function of these)
Key(isPrivate, chain) == [isNil |-> FALSE, isPrivate |-> isPrivate, chain |-> chain]

nilKey == [isNil |-> TRUE, isPrivate |-> FALSE, chain |-> <<>>]

ErrDeriveHardFromPublic == Error("cannot derive a hardened key from a public key", <<>>)

ErrInvalidChild == Error("the extended key at this index is invalid", <<>>)

\* (key, error) of one derivation step
Step(key, err) == [key |-> key, err |-> err]

\* the outcomes of hdkeychain's Child for key k and index i: a public key
\* has no hardened child; otherwise the child, or ErrInvalidChild when the
\* derived scalar is unusable, which the caller cannot foresee
ChildOutcomes(k, i) ==
    IF ~k.isPrivate /\ geq32(i, HardenedKeyStart)
    THEN {Step(nilKey, ErrDeriveHardFromPublic)}
    ELSE {Step(Key(k.isPrivate, Append(k.chain, i)), nil), Step(nilKey, ErrInvalidChild)}

\* ExtendedKey.Child: the wrapped key of a successful step, else nil and
\* the step's error
Child(k, i) ==
    {IF out.err # nil THEN Step(nilKey, out.err) ELSE Step(out.key, nil) : out \in ChildOutcomes(k, i)}

\* the indices of the paths handed to DeriveKey and MarshalJSON
Indices == {U32(0, 0), U32(0, 44), U32(32768, 0), U32(32768, 44), MaxUint32}

PathValues == UNION {[1..n -> Indices] : n \in 0..MaxPathLen}

Masters == {Key(TRUE, <<>>), Key(FALSE, <<>>)}

\* byte strings handed to UnmarshalJSON that are no JSON string
RawJSON ==
    { <<"n", "u", "l", "l">>,
      <<"1", "2">>,
      <<>>,
      <<"\"", "m", "/", "0">>,
      <<"\"", "m", "/", "\t", "0", "\"">>,
      <<"m", "/", "0">> }

\* the value of the receiver before UnmarshalJSON
Receivers == {<<>>, <<U32(0, 9)>>}

(***************************************************************************)
(* State.                                                                  *)
(***************************************************************************)
VARIABLES
    pc,       \* the position of the caller
    parts,    \* the components the caller joined into path, as table entries
    path,     \* the string handed to ParseDerivationPath
    base,     \* the variadic base argument
    result,   \* what ParseDerivationPath returned
    text,     \* what String returned for result.path
    again,    \* what ParseDerivationPath returned for text
    dp,       \* the path handed to MarshalJSON
    data,     \* the bytes MarshalJSON returned, or handed to UnmarshalJSON
    recv,     \* the receiver of UnmarshalJSON
    uerr,     \* the error UnmarshalJSON returned
    master,   \* DeriveKey's master argument
    dpath,    \* DeriveKey's path argument
    key,      \* DeriveKey's local key
    idx,      \* the position of DeriveKey's loop in dpath
    calls,    \* the Child calls made so far: receiver, index and outcome
    ret       \* what DeriveKey returned

vars == <<pc, parts, path, base, result, text, again, dp, data, recv, uerr,
          master, dpath, key, idx, calls, ret>>

parseVars == <<parts, path, base, result, text, again>>

jsonVars == <<dp, data, recv, uerr>>

deriveVars == <<master, dpath, key, idx, calls, ret>>

\* the variables of an operation that is not running
ParseIdle ==
    /\ parts = <<>> /\ path = <<>> /\ base = <<>>
    /\ result = Result(<<>>, nil) /\ text = <<>> /\ again = Result(<<>>, nil)

JSONIdle == dp = <<>> /\ data = <<>> /\ recv = <<>> /\ uerr = nil

DeriveIdle ==
    /\ master = nilKey /\ dpath = <<>> /\ key = nilKey /\ idx = 0
    /\ calls = <<>> /\ ret = Step(nilKey, nil)

(***************************************************************************)
(* Parsing and formatting: a caller parses a string, formats the path it   *)
(* got and parses that text again.                                         *)
(***************************************************************************)
Init ==
    /\ pc = "start"
    /\ parts \in PartSeqs
    /\ path = Join(parts)
    /\ base \in Bases
    /\ result = Result(<<>>, nil) /\ text = <<>> /\ again = Result(<<>>, nil)
    /\ JSONIdle /\ DeriveIdle

Parse ==
    /\ pc = "start"
    /\ result' = ParseDerivationPath(path, base)
    /\ pc' = "parsed"
    /\ UNCHANGED <<parts, path, base, text, again, jsonVars, deriveVars>>

Format ==
    /\ pc = "parsed"
    /\ result.err = nil
    /\ text' = String(result.path)
    /\ pc' = "formatted"
    /\ UNCHANGED <<parts, path, base, result, again, jsonVars, deriveVars>>

Reparse ==
    /\ pc = "formatted"
    /\ again' = ParseDerivationPath(text, <<>>)
    /\ pc' = "reparsed"
    /\ UNCHANGED <<parts, path, base, result, text, jsonVars, deriveVars>>

Next == Parse \/ Format \/ Reparse

Spec == Init /\ [][Next]_vars

(***************************************************************************)
(* JSON: a caller marshals a path and unmarshals the bytes, or unmarshals  *)
(* bytes of its own.                                                       *)
(***************************************************************************)
JSONInit ==
    /\ \/ /\ pc = "value"
          /\ dp \in PathValues
          /\ parts = <<>> /\ path = <<>> /\ data = <<>>
       \/ /\ pc = "bytes"
          /\ parts \in PartSeqs
          /\ path = Join(parts)
          /\ data = jsonMarshal(path)
          /\ dp = <<>>
       \/ /\ pc = "bytes"
          /\ data \in RawJSON
          /\ parts = <<>> /\ path = <<>> /\ dp = <<>>
    /\ recv \in Receivers
    /\ uerr = nil
    /\ base = <<>> /\ result = Result(<<>>, nil) /\ text = <<>> /\ again = Result(<<>>, nil)
    /\ DeriveIdle

CallMarshalJSON ==
    /\ pc = "value"
    /\ data' = MarshalJSON(dp)
    /\ pc' = "marshalled"
    /\ UNCHANGED <<dp, recv, uerr, parseVars, deriveVars>>

CallUnmarshalJSON ==
    /\ pc \in {"bytes", "marshalled"}
    /\ LET r == UnmarshalJSON(recv, data)
       IN  recv' = r.path /\ uerr' = r.err
    /\ pc' = IF pc = "bytes" THEN "decoded" ELSE "unmarshalled"
    /\ UNCHANGED <<dp, data, parseVars, deriveVars>>

JSONNext == CallMarshalJSON \/ CallUnmarshalJSON

JSONSpec == JSONInit /\ [][JSONNext]_vars

(***************************************************************************)
(* DeriveKey, one Child call per step.                                     *)
(***************************************************************************)
DeriveInit ==
    /\ pc = "call"
    /\ master \in Masters
    /\ dpath \in PathValues
    /\ key = nilKey /\ idx = 0 /\ calls = <<>> /\ ret = Step(nilKey, nil)
    /\ ParseIdle /\ JSONIdle

\* key := master
DeriveKeyEnter ==
    /\ pc = "call"
    /\ key' = master
    /\ idx' = 1
    /\ pc' = "loop"
    /\ UNCHANGED <<master, dpath, calls, ret, parseVars, jsonVars>>

\* DeriveKeyStep skipping an index whose Child call failed
DeriveKeyStepContinues ==
    /\ pc = "loop"
    /\ idx <= Len(dpath)
    /\ \E out \in Child(key, dpath[idx]) :
          /\ calls' = Append(calls, [on |-> key, index |-> dpath[idx], err |-> out.err])
          /\ key' = IF out.err # nil THEN key ELSE out.key
    /\ idx' = idx + 1
    /\ UNCHANGED <<pc, ret, master, dpath, parseVars, jsonVars>>

\* DeriveKeyStep deriving every index from master instead of the last key
DeriveKeyStepFromMaster ==
    /\ pc = "loop"
    /\ idx <= Len(dpath)
    /\ \E out \in Child(master, dpath[idx]) :
          /\ calls' = Append(calls, [on |-> master, index |-> dpath[idx], err |-> out.err])
          /\ key' = out.key
          /\ IF out.err # nil
             THEN ret' = Step(nilKey, out.err) /\ pc' = "done" /\ idx' = idx
             ELSE ret' = ret /\ pc' = "loop" /\ idx' = idx + 1
    /\ UNCHANGED <<master, dpath, parseVars, jsonVars>>

\* one iteration: key, err = key.Child(val), and the return on an error
DeriveKeyStep ==
    /\ pc = "loop"
    /\ idx <= Len(dpath)
    /\ \E out \in Child(key, dpath[idx]) :
          /\ calls' = Append(calls, [on |-> key, index |-> dpath[idx], err |-> out.err])
          /\ key' = out.key
          /\ IF out.err # nil
             THEN ret' = Step(nilKey, out.err) /\ pc' = "done" /\ idx' = idx
             ELSE ret' = ret /\ pc' = "loop" /\ idx' = idx + 1
    /\ UNCHANGED <<master, dpath, parseVars, jsonVars>>

\* the range is exhausted: return key, nil
DeriveKeyReturn ==
    /\ pc = "loop"
    /\ idx > Len(dpath)
    /\ ret' = Step(key, nil)
    /\ pc' = "done"
    /\ UNCHANGED <<master, dpath, key, idx, calls, parseVars, jsonVars>>

DeriveNext == DeriveKeyEnter \/ DeriveKeyStep \/ DeriveKeyReturn

DeriveSpec == DeriveInit /\ [][DeriveNext]_vars

(***************************************************************************)
(* What the properties read off the caller's components.                   *)
(***************************************************************************)
\* the root marker, and a first component that is empty once trimmed
IsRoot(e) == e.text \in {<<"m">>, <<" ", "m", " ">>}

IsBlank(e) == e.text \in {<<>>, <<" ">>}

Absolute == parts # <<>> /\ IsRoot(parts[1])

Relative == parts # <<>> /\ ~IsRoot(parts[1]) /\ ~IsBlank(parts[1])

\* the components the parser's loop visits, and the path they extend
Comps == IF Absolute THEN Tail(parts) ELSE parts

Base0 == IF Relative /\ base # <<>> THEN base[1] ELSE <<>>

\* the loop is entered: the string is absolute with a component after the
\* marker, or relative with a base
Reached == (Absolute /\ Len(parts) > 1) \/ (Relative /\ base # <<>>)

Limb(e, i) == IF i <= Len(e.abs) THEN e.abs[i] ELSE 0

\* a numeral within [0, max]: max is 2^32 - 1, and 2^31 - 1 when hardened
InRange(e) ==
    e.num /\ ~e.neg /\ Len(e.abs) <= 2 /\ (e.hard => Limb(e, 2) < 32768)

\* hardened offset + value of an in-range numeral, without wrap-around
IndexOf(e) == <<Limb(e, 1), Limb(e, 2) + (IF e.hard THEN 32768 ELSE 0)>>

\* the first component that is no in-range numeral, 0 when there is none
FirstBad ==
    IF \A j \in 1..Len(Comps) : InRange(Comps[j]) THEN 0
    ELSE CHOOSE j \in 1..Len(Comps) :
            ~InRange(Comps[j]) /\ \A k \in 1..(j - 1) : InRange(Comps[k])

RangeMsg == "component %v out of allowed range [0, %d]"

HardenedRangeMsg == "component %v out of allowed hardened range [0, %d]"

\* the plain decimal numeral of a magnitude below 2^32
DecimalTexts ==
    { <<"0">>,
      <<"4", "4">>,
      <<"6", "0">>,
      <<"2", "1", "4", "7", "4", "8", "3", "6", "4", "7">>,
      <<"2", "1", "4", "7", "4", "8", "3", "6", "4", "8">>,
      <<"2", "1", "4", "7", "4", "8", "3", "6", "9", "2">>,
      <<"4", "2", "9", "4", "9", "6", "7", "2", "9", "5">> }

DecimalFor(abs) == (CHOOSE n \in Numerals : n.text \in DecimalTexts /\ n.abs = abs).text

\* s is the decimal notation, without leading zeros, of the low 31 bits of u
IsDecimalOfLow31(s, u) ==
    /\ s # <<>>
    /\ \A k \in 1..Len(s) : IndexIn(s[k], Digits) > 0
    /\ Len(s) > 1 => s[1] # "0"
    /\ scanDigits(s, 10, <<>>, 0).abs = norm(<<u[1], u[2] % 32768>>)

(***************************************************************************)
(* C1.  String round trip: every path a successful ParseDerivationPath     *)
(* returned (absolute input, or relative input with a base) is returned    *)
(* again, index by index, by ParseDerivationPath of its String() with no   *)
(* base.                                                                   *)
(***************************************************************************)
StringRoundTrip ==
    pc = "reparsed" => again.err = nil /\ again.path = result.path

\* a relative, non-canonical input on a non-empty base went round
StringRoundTripWitness ==
    /\ pc = "reparsed"
    /\ Relative /\ base # <<>> /\ base[1] # <<>>
    /\ Len(result.path) = Len(base[1]) + Len(parts)
    /\ text # path
    /\ again.path = result.path

(***************************************************************************)
(* C3.  Range enforcement: a component that denotes the integer v fails    *)
(* with the out-of-range error exactly when v < 0 or v > max, max being    *)
(* 0xFFFFFFFF for a non-hardened and 0x7FFFFFFF for a hardened component;  *)
(* otherwise the index appended is the hardened offset plus v, with no     *)
(* 32-bit wrap-around.                                                     *)
(***************************************************************************)
RangeEnforcement ==
    (pc # "start" /\ Reached) =>
        LET j == FirstBad
        IN  IF j = 0
            THEN /\ result.err = nil
                 /\ result.path = Base0 \o [k \in 1..Len(Comps) |-> IndexOf(Comps[k])]
            ELSE /\ result.path = <<>>
                 /\ result.err # nil
                 /\ result.err.msg = RangeMsg <=> (Comps[j].num /\ ~Comps[j].hard)
                 /\ result.err.msg = HardenedRangeMsg <=> (Comps[j].num /\ Comps[j].hard)

\* "m/2147483648'" failed with the hardened out-of-range error
RangeEnforcementWitness ==
    /\ pc = "parsed"
    /\ path = <<"m", "/", "2", "1", "4", "7", "4", "8", "3", "6", "4", "8", "'">>
    /\ result.err.msg = HardenedRangeMsg
    /\ result.err.args = << <<"2", "1", "4", "7", "4", "8", "3", "6", "4", "8">>, <<"2", "1", "4", "7", "4", "8", "3", "6", "4", "7">> >>

(***************************************************************************)
(* C6.  Relative resolution: a string whose first component is neither     *)
(* empty nor "m", parsed with a base b (possibly empty), yields b followed *)
(* by one index per component of the string, the first included, in        *)
(* order; "44'/60'" on the path that ParseDerivationPath("m") returns      *)
(* yields [0x8000002C, 0x8000003C].                                        *)
(***************************************************************************)
RelativeResolution ==
    /\ (pc # "start" /\ Relative /\ base # <<>> /\ result.err = nil) =>
          /\ Len(result.path) = Len(base[1]) + Len(parts)
          /\ SubSeq(result.path, 1, Len(base[1])) = base[1]
          /\ \A k \in 1..Len(parts) : result.path[Len(base[1]) + k] = IndexOf(parts[k])
    /\ (/\ pc # "start"
        /\ path = <<"4", "4", "'", "/", "6", "0", "'">>
        /\ base = <<ParseDerivationPath(<<"m">>, <<>>).path>>) =>
          result = Result(<<U32(32768, 44), U32(32768, 60)>>, nil)

\* the example of the claim was parsed
RelativeResolutionWitness ==
    /\ pc = "parsed"
    /\ path = <<"4", "4", "'", "/", "6", "0", "'">>
    /\ base = <<ParseDerivationPath(<<"m">>, <<>>).path>>
    /\ result.path = <<U32(32768, 44), U32(32768, 60)>>

(***************************************************************************)
(* C7.  Paths with no usable component.  As claimed: "m/" and "/m" each    *)
(* fail with the ambiguous-path or the empty-path error.                   *)
(***************************************************************************)
NoComponentsAmbiguousOrEmpty ==
    (pc # "start" /\ base = <<>> /\ path \in {<<"m", "/">>, <<"/", "m">>, <<"m">>}) =>
        /\ result.err \in {ErrAmbiguousPath, ErrEmptyPath}
        /\ result.path = <<>>

(***************************************************************************)
(* C7, amended.  "/m" fails with the ambiguous-path error, "m" with the    *)
(* empty-path error and "m/" with the invalid-component error for its      *)
(* empty component; none of them returns a path.                           *)
(***************************************************************************)
NoComponentsRejected ==
    (pc # "start" /\ path \in {<<"m", "/">>, <<"/", "m">>, <<"m">>}) =>
        /\ result.path = <<>>
        /\ path = <<"/", "m">> => result.err = ErrAmbiguousPath
        /\ path = <<"m">> => result.err = ErrEmptyPath
        /\ path = <<"m", "/">> => result.err = ErrInvalidComponent(<<>>)

\* "m/" was parsed and rejected for its empty component
NoComponentsRejectedWitness ==
    /\ pc = "parsed"
    /\ path = <<"m", "/">>
    /\ result = Result(<<>>, ErrInvalidComponent(<<>>))

(***************************************************************************)
(* C9.  Multi-base parsing and canonical decimal output: a numeral in any  *)
(* notation yields the index that the decimal numeral of the same value    *)
(* with the same hardened marker yields, and String() renders every index  *)
(* as the decimal value of its low 31 bits, followed by an apostrophe      *)
(* exactly when the index is at least 0x80000000.                          *)
(***************************************************************************)
MultiBaseCanonical ==
    /\ (pc # "start" /\ Reached /\ FirstBad = 0) =>
          /\ result.err = nil
          /\ Len(result.path) = Len(Base0) + Len(Comps)
          /\ \A k \in 1..Len(Comps) :
                LET e == Comps[k]
                    decimal == <<"m", "/">> \o DecimalFor(e.abs)
                                   \o (IF e.hard THEN <<"'">> ELSE <<>>)
                    canon == ParseDerivationPath(decimal, <<>>)
                IN  canon.err = nil /\ result.path[Len(Base0) + k] = canon.path[1]
    /\ pc \in {"formatted", "reparsed"} =>
          LET pieces == Split(text)
          IN  /\ Len(pieces) = Len(result.path) + 1
              /\ pieces[1] = <<"m">>
              /\ \A k \in 1..Len(result.path) :
                    LET piece == pieces[k + 1]
                        high == geq32(result.path[k], HardenedKeyStart)
                    IN  /\ HasSuffix(piece) <=> high
                        /\ IsDecimalOfLow31(TrimSuffix(piece), result.path[k])

\* "m/0x2C'" was parsed to 0x8000002C and formatted as "m/44'"
MultiBaseCanonicalWitness ==
    /\ pc = "formatted"
    /\ path = <<"m", "/", "0", "x", "2", "C", "'">>
    /\ result.path = <<U32(32768, 44)>>
    /\ text = <<"m", "/", "4", "4", "'">>

(***************************************************************************)
(* C10.  Hardened-flag aliasing: a component without an apostrophe whose   *)
(* value v is in [2^31, 2^32 - 1] is accepted and yields the index of the  *)
(* hardened component (v - 2^31)', so the index has its hardened bit set,  *)
(* and String() renders it as "(v - 2^31)'".                               *)
(***************************************************************************)
HardenedAliasing ==
    (pc # "start" /\ Reached /\ FirstBad = 0) =>
        /\ result.err = nil
        /\ Len(result.path) = Len(Base0) + Len(Comps)
        /\ \A k \in 1..Len(Comps) :
              LET e == Comps[k]
                  index == result.path[Len(Base0) + k]
                  low == DecimalFor(norm(<<Limb(e, 1), Limb(e, 2) % 32768>>)) \o <<"'">>
                  alias == ParseDerivationPath(<<"m", "/">> \o low, <<>>)
              IN  (~e.hard /\ Limb(e, 2) >= 32768) =>
                      /\ geq32(index, HardenedKeyStart)
                      /\ alias.err = nil /\ index = alias.path[1]
                      /\ pc \in {"formatted", "reparsed"} =>
                            Split(text)[Len(Base0) + k + 1] = low

\* "m/2147483692" (2^31 + 44, no apostrophe) was formatted as "m/44'"
HardenedAliasingWitness ==
    /\ pc = "formatted"
    /\ path = <<"m", "/", "2", "1", "4", "7", "4", "8", "3", "6", "9", "2">>
    /\ result.path = <<U32(32768, 44)>>
    /\ text = <<"m", "/", "4", "4", "'">>

(***************************************************************************)
(* C2.  JSON round trip.  As claimed: for every DerivationPath value,      *)
(* UnmarshalJSON of what MarshalJSON returned succeeds and yields an equal *)
(* path.                                                                   *)
(***************************************************************************)
JSONRoundTripEveryPath ==
    pc = "unmarshalled" => uerr = nil /\ recv = dp

(***************************************************************************)
(* C2, amended.  For every non-empty DerivationPath value, UnmarshalJSON   *)
(* of what MarshalJSON returned succeeds and yields an equal path; the     *)
(* empty path marshals to "m", which UnmarshalJSON rejects with the        *)
(* empty-path error, leaving a nil path in the receiver.                   *)
(***************************************************************************)
JSONRoundTrip ==
    pc = "unmarshalled" =>
        IF dp = <<>>
        THEN data = <<"\"", "m", "\"">> /\ uerr = ErrEmptyPath /\ recv = <<>>
        ELSE uerr = nil /\ recv = dp

\* a path with a hardened and a non-hardened index went round through JSON
JSONRoundTripWitness ==
    /\ pc = "unmarshalled"
    /\ dp = <<U32(32768, 44), U32(0, 0)>>
    /\ data = <<"\"", "m", "/", "4", "4", "'", "/", "0", "\"">>
    /\ uerr = nil /\ recv = dp

FailFast ==
    /\ Len(calls) <= Len(dpath)
    /\ \A k \in 1..Len(calls) :
          /\ calls[k].index = dpath[k]
          /\ calls[k].err # nil =>
                /\ k = Len(calls)
                /\ pc = "done"
                /\ ret = Step(nilKey, calls[k].err)
    /\ (pc = "done" /\ ret.err # nil) =>
          /\ calls # <<>>
          /\ calls[Len(calls)].err = ret.err
          /\ ~ENABLED DeriveNext

\* the second of three indices failed: two calls, the error returned
FailFastWitness ==
    /\ pc = "done"
    /\ Len(dpath) = 3
    /\ Len(calls) = 2
    /\ calls[1].err = nil
    /\ ret = Step(nilKey, ErrInvalidChild)

(***************************************************************************)
(* C5.  Derivation is a strict left fold: when every Child call succeeds,  *)
(* DeriveKey returns the key that the calls, each made on the key the call *)
(* before returned and the first on master, derive in path order, one call *)
(* per index; for the empty path it returns master and makes no call.      *)
(***************************************************************************)
LeftFold ==
    (pc = "done" /\ ret.err = nil) =>
        /\ Len(calls) = Len(dpath)
        /\ \A k \in 1..Len(calls) :
              /\ calls[k].err = nil
              /\ calls[k].index = dpath[k]
              /\ calls[k].on = Key(master.isPrivate, SubSeq(dpath, 1, k - 1))
        /\ ret.key = Key(master.isPrivate, dpath)
        /\ dpath = <<>> => ret.key = master /\ calls = <<>>

\* three indices were derived in order from a private master
LeftFoldWitness ==
    /\ pc = "done"
    /\ ret.err = nil
    /\ dpath = <<U32(32768, 44), U32(32768, 0), U32(0, 44)>>
    /\ Len(calls) = 3
    /\ ret.key.chain = dpath

====
